---------------------------- MODULE Spec2Model ----------------------------
(***************************************************************************)
(* Model of src/utils/element2image.ts: copyImage, downloadImage and       *)
(* downloadPdf.  Every invocation is an async function: it calls           *)
(* html2canvas(element), suspends, and is resumed on the event loop with   *)
(* the canvas (or rejected).  Each event-loop turn runs to completion, so  *)
(* one action is one turn.  The rasterizer, the canvas encoder, the        *)
(* clipboard and jsPDF are collaborators; their outcomes are inputs.       *)
(***************************************************************************)
EXTENDS Integers, Sequences, FiniteSets, TLC

(* ------------------------------ bounds --------------------------------- *)
MaxTasks == 2        \* invocations in flight, numbered in call order
MaxDim == 2          \* canvas width and height range over 0..MaxDim

Tasks == 1..MaxTasks
Dims == 0..MaxDim

(* ---------------------------- JS values -------------------------------- *)
Undefined == [type |-> "undefined"]
Str(s) == [type |-> "string", val |-> s]
TypeOf(v) == v.type

\* A default parameter value (fileName = 'image', fileExtension = 'png'):
\* the default applies exactly when the argument is undefined.
DefaultParam(v, d) == IF v = Undefined THEN Str(d) ELSE v

\* JS numbers: a finite quotient n/d of integers (d > 0), Infinity or NaN.
Fin(n, d) == [k |-> "fin", n |-> n, d |-> d]
Infinity == [k |-> "inf"]
NaN == [k |-> "nan"]
Int2Num(i) == Fin(i, 1)

\* a / b for a finite a >= 0 and a non-negative integer b, as JS divides:
\* x/0 is Infinity for x > 0 and NaN for x = 0.
JsDiv(a, b) ==
  IF b = 0 THEN (IF a.n = 0 THEN NaN ELSE Infinity)
  ELSE Fin(a.n, a.d * b)

\* a * b for an integer a and a finite b
JsMul(a, b) == Fin(a * b.n, b.d)

NumEq(x, y) ==
  /\ x.k = y.k
  /\ x.k # "nan"
  /\ (x.k = "fin" => x.n * y.d = y.n * x.d)

(* ------------------------- the inputs drawn ---------------------------- *)
NullRef == "null"
Elements == {NullRef, "div"}
FileNames == {Undefined, Str("QRCode"), Str("a.b")}
FileExtensions == {Undefined, Str("png"), Str("jpg")}

(* -------------------------- platform: canvas --------------------------- *)
NoCanvas == [id |-> 0, width |-> 0, height |-> 0]
Canvas(t, w, h) == [id |-> t, width |-> w, height |-> h]
IsEmpty(c) == c.width = 0 \/ c.height = 0

\* The image types HTMLCanvasElement.toDataURL can serialize to; any other
\* type string is served as PNG.
SupportedTypes == {"image/png", "image/jpeg", "image/webp"}

\* canvas.toDataURL(type): "data:," (no tag) for a canvas without pixels,
\* else a data URL tagged with the type actually used.
\* width and height are what a decoder of the data reads back.
toDataURL(c, type) ==
  IF IsEmpty(c)
  THEN [tag |-> "", bitmap |-> 0, width |-> c.width, height |-> c.height]
  ELSE [tag |-> (IF type \in SupportedTypes THEN type ELSE "image/png"),
        bitmap |-> c.id, width |-> c.width, height |-> c.height]

\* canvas.toBlob(cb) with the default type: null for a canvas without pixels
NullBlob == [type |-> "null", bitmap |-> 0]
toBlob(c) ==
  IF IsEmpty(c) THEN NullBlob ELSE [type |-> "image/png", bitmap |-> c.id]

(* --------------------------- platform: DOM ----------------------------- *)
\* document.createElement('a'): the download property is a string exactly
\* on a platform that supports the download attribute.
createElement(id, supported) ==
  [node |-> id, href |-> "",
   download |-> IF supported THEN Str("") ELSE Undefined]

appendChild(children, node) == Append(children, node)

\* mutant: the link is left in the document
removeChild_Skipped(children, node) == children

removeChild(children, node) ==
  SelectSeq(children, LAMBDA n : n.node # node.node)

(* ----------------------------- state ----------------------------------- *)
VARIABLES
  supportsDownload,  \* the platform implements <a download>
  call,              \* call[t]: operation and arguments of invocation t
  pc,                \* where invocation t is
  promise,           \* state of the promise invocation t returned
  canvas,            \* the canvas html2canvas resolved invocation t with
  write,             \* state of invocation t's navigator.clipboard.write
  trace,             \* platform calls invocation t made, in order
  body               \* children this module attached to document.body

vars == <<supportsDownload, call, pc, promise, canvas, write, trace, body>>

NoCall == [op |-> "none", element |-> NullRef,
           fileName |-> Undefined, fileExtension |-> Undefined]

Init ==
  /\ supportsDownload \in BOOLEAN
  /\ call = [t \in Tasks |-> NoCall]
  /\ pc = [t \in Tasks |-> "idle"]
  /\ promise = [t \in Tasks |-> "none"]
  /\ canvas = [t \in Tasks |-> NoCanvas]
  /\ write = [t \in Tasks |-> "none"]
  /\ trace = [t \in Tasks |-> <<>>]
  /\ body = <<>>

(* ------------------------ invocation (first turn) ---------------------- *)
\* The synchronous part of every function up to `await html2canvas(element)`.
\* Invocations are numbered in the order they are made.
CanInvoke(t) ==
  /\ pc[t] = "idle"
  /\ \A u \in Tasks : u < t => pc[u] # "idle"

Invoke(t, c) ==
  /\ call' = [call EXCEPT ![t] = c]
  /\ pc' = [pc EXCEPT ![t] = "awaitRaster"]
  /\ promise' = [promise EXCEPT ![t] = "pending"]
  /\ trace' = [trace EXCEPT ![t] = <<[call |-> "html2canvas", element |-> c.element]>>]

CallCopyImage(t) ==
  /\ CanInvoke(t)
  /\ \E e \in Elements :
       Invoke(t, [op |-> "copyImage", element |-> e,
                  fileName |-> Undefined, fileExtension |-> Undefined])
  /\ UNCHANGED <<supportsDownload, canvas, write, body>>

CallDownloadImage(t) ==
  /\ CanInvoke(t)
  /\ \E e \in Elements, n \in FileNames, x \in FileExtensions :
       Invoke(t, [op |-> "downloadImage", element |-> e,
                  fileName |-> n, fileExtension |-> x])
  /\ UNCHANGED <<supportsDownload, canvas, write, body>>

CallDownloadPdf(t) ==
  /\ CanInvoke(t)
  /\ \E e \in Elements, n \in FileNames :
       Invoke(t, [op |-> "downloadPdf", element |-> e,
                  fileName |-> n, fileExtension |-> Undefined])
  /\ UNCHANGED <<supportsDownload, canvas, write, body>>

\* mutant: the rejection is caught and the function returns normally
RasterReject_Swallowed(t) ==
  /\ pc[t] = "awaitRaster"
  /\ pc' = [pc EXCEPT ![t] = "done"]
  /\ promise' = [promise EXCEPT ![t] = "fulfilled"]
  /\ UNCHANGED <<supportsDownload, call, canvas, write, trace, body>>

\* html2canvas rejects: always for a null element, possibly for any other.
\* The await throws, nothing after it runs, the returned promise rejects.
RasterReject(t) ==
  /\ pc[t] = "awaitRaster"
  /\ pc' = [pc EXCEPT ![t] = "done"]
  /\ promise' = [promise EXCEPT ![t] = "rejected"]
  /\ UNCHANGED <<supportsDownload, call, canvas, write, trace, body>>

\* html2canvas resolves only for a real element
CanResolve(t) == pc[t] = "awaitRaster" /\ call[t].element # NullRef


Log(t, events) == [trace EXCEPT ![t] = trace[t] \o events]

(* ------------------------------ copyImage ------------------------------ *)
\* Resumption after the await: canvas.toBlob(callback) is called and the
\* function returns, which fulfils its promise.
CopyImageResume(t, w, h) ==
  /\ CanResolve(t)
  /\ call[t].op = "copyImage"
  /\ canvas' = [canvas EXCEPT ![t] = Canvas(t, w, h)]
  /\ trace' = Log(t, <<[call |-> "toBlob", canvas |-> t]>>)
  /\ promise' = [promise EXCEPT ![t] = "fulfilled"]
  /\ pc' = [pc EXCEPT ![t] = "awaitBlob"]
  /\ UNCHANGED <<supportsDownload, call, write, body>>

\* mutant: the item is keyed by another type
ClipboardItem_Jpeg(blob) == [type |-> "image/jpeg", blob |-> blob]

\* new ClipboardItem({ "image/png": blob! })
ClipboardItem(blob) == [type |-> "image/png", blob |-> blob]

\* The toBlob callback, a later turn: it builds the item and calls
\* navigator.clipboard.write([item]) without awaiting or returning it.
BlobCallback(t) ==
  /\ pc[t] = "awaitBlob"
  /\ trace' = Log(t, <<[call |-> "clipboard.write",
                        items |-> <<ClipboardItem(toBlob(canvas[t]))>>]>>)
  /\ write' = [write EXCEPT ![t] = "pending"]
  /\ pc' = [pc EXCEPT ![t] = "done"]
  /\ UNCHANGED <<supportsDownload, call, promise, canvas, body>>

\* mutant: the write is awaited, its failure rejects the invocation
PromiseAfterWrite_Propagated(p, ok) == IF ok THEN p ELSE "rejected"

\* The promise the copyImage invocation returned, once its clipboard write
\* has settled: nothing in copyImage observes the write's promise.
PromiseAfterWrite(p, ok) == p

\* The clipboard write settles.  A write of a null blob fails; any other may
\* succeed or fail (permission, focus).
ClipboardWriteSettle(t) ==
  /\ write[t] = "pending"
  /\ \E ok \in BOOLEAN :
       /\ ok => toBlob(canvas[t]) # NullBlob
       /\ write' = [write EXCEPT ![t] = IF ok THEN "ok" ELSE "failed"]
       /\ promise' = [promise EXCEPT ![t] = PromiseAfterWrite(promise[t], ok)]
  /\ UNCHANGED <<supportsDownload, call, pc, canvas, trace, body>>

(* ---------------------------- downloadImage ---------------------------- *)
\* `image/${fileExtension}`
MimeOf(fileExtension) == "image/" \o fileExtension.val

\* mutant: the separating dot is missing
DownloadName_NoDot(fileName, fileExtension) ==
  Str(fileName.val \o fileExtension.val)

\* `${fileName}.${fileExtension}`
DownloadName(fileName, fileExtension) ==
  Str(fileName.val \o "." \o fileExtension.val)

\* mutant: the fallback is never taken
HasDownloadAttribute_Always(link) == TRUE

\* typeof link.download === 'string'
HasDownloadAttribute(link) == TypeOf(link.download) = "string"

\* mutant: the parameters live in one shared slot, overwritten by every call
ArgsOf_Latest(calls, t) ==
  calls[CHOOSE u \in Tasks :
          /\ pc[u] # "idle"
          /\ \A v \in Tasks : pc[v] # "idle" => v <= u]

\* The parameters an invocation reads are its own.
ArgsOf(calls, t) == calls[t]

DownloadImageResume(t, w, h) ==
  /\ CanResolve(t)
  /\ call[t].op = "downloadImage"
  /\ LET a == ArgsOf(call, t)
         fileName == DefaultParam(a.fileName, "image")
         fileExtension == DefaultParam(a.fileExtension, "png")
         cv == Canvas(t, w, h)
         data == toDataURL(cv, MimeOf(fileExtension))
         link0 == createElement(t, supportsDownload)
         link == [link0 EXCEPT !.href = data,
                               !.download = DownloadName(fileName, fileExtension)]
         attached == appendChild(body, link)
     IN  /\ canvas' = [canvas EXCEPT ![t] = cv]
         /\ IF HasDownloadAttribute(link0)
            THEN /\ body' = removeChild(attached, link)
                 /\ trace' = Log(t,
                      << [call |-> "toDataURL", type |-> MimeOf(fileExtension)],
                         [call |-> "createElement", node |-> link0.node],
                         [call |-> "appendChild", node |-> link.node],
                         [call |-> "click", node |-> link.node,
                          href |-> link.href, download |-> link.download],
                         [call |-> "removeChild", node |-> link.node] >>)
            ELSE /\ body' = body
                 /\ trace' = Log(t,
                      << [call |-> "toDataURL", type |-> MimeOf(fileExtension)],
                         [call |-> "createElement", node |-> link0.node],
                         [call |-> "window.open", url |-> data] >>)
  /\ promise' = [promise EXCEPT ![t] = "fulfilled"]
  /\ pc' = [pc EXCEPT ![t] = "done"]
  /\ UNCHANGED <<supportsDownload, call, write>>


(* ------------------------------ downloadPdf ---------------------------- *)
\* new jsPDF(): one page of the default format (a4, portrait, unit mm)
PageWidth == 210
PageHeight == 297
NewJsPDF == [pageWidth |-> PageWidth, pageHeight |-> PageHeight,
             pages |-> 1, images |-> <<>>]

\* pdf.internal.pageSize.getWidth()
getWidth(pdf) == Int2Num(pdf.pageWidth)

\* pdf.getImageProperties(data)
getImageProperties(data) == [width |-> data.width, height |-> data.height]

\* mutant: width and height exchanged
PdfHeight_Swapped(imgProperties, pdfWidth) ==
  JsDiv(JsMul(imgProperties.width, pdfWidth), imgProperties.height)

\* (imgProperties.height * pdfWidth) / imgProperties.width
PdfHeight(imgProperties, pdfWidth) ==
  JsDiv(JsMul(imgProperties.height, pdfWidth), imgProperties.width)

\* pdf.addImage(data, 'PNG', 0, 0, pdfWidth, pdfHeight)
Placement(data, pdfWidth, pdfHeight) ==
  [data |-> data, format |-> "PNG", x |-> 0, y |-> 0,
   w |-> pdfWidth, h |-> pdfHeight]

addImage(pdf, placement) ==
  [pdf EXCEPT !.images = Append(pdf.images, placement)]

\* mutant: the extension is missing
PdfName_NoExtension(fileName) == fileName.val

\* `${fileName}.pdf`
PdfName(fileName) == fileName.val \o ".pdf"

\* What jsPDF does with the data of a canvas without pixels is outside this
\* code: getImageProperties may throw, addImage may throw, or both accept.
PdfOutcomes(data) ==
  IF data.tag = "" THEN {"propertiesThrow", "addImageThrow", "saved"}
  ELSE {"saved"}

DownloadPdfResume(t, w, h) ==
  /\ CanResolve(t)
  /\ call[t].op = "downloadPdf"
  /\ LET a == ArgsOf(call, t)
         fileName == DefaultParam(a.fileName, "image")
         cv == Canvas(t, w, h)
         data == toDataURL(cv, "image/png")
         pdf == NewJsPDF
         imgProperties == getImageProperties(data)
         pdfWidth == getWidth(pdf)
         pdfHeight == PdfHeight(imgProperties, pdfWidth)
         placement == Placement(data, pdfWidth, pdfHeight)
         evData == [call |-> "toDataURL", type |-> "image/png"]
         evProps == [call |-> "getImageProperties", data |-> data]
         evAdd == [call |-> "addImage", image |-> placement,
                   of |-> imgProperties]
         evSave == [call |-> "pdf.save", name |-> PdfName(fileName),
                    doc |-> addImage(pdf, placement)]
     IN  /\ canvas' = [canvas EXCEPT ![t] = cv]
         /\ \E outcome \in PdfOutcomes(data) :
              CASE outcome = "propertiesThrow" ->
                     /\ trace' = Log(t, <<evData, evProps>>)
                     /\ promise' = [promise EXCEPT ![t] = "rejected"]
                [] outcome = "addImageThrow" ->
                     /\ trace' = Log(t, <<evData, evProps, evAdd>>)
                     /\ promise' = [promise EXCEPT ![t] = "rejected"]
                [] outcome = "saved" ->
                     /\ trace' = Log(t, <<evData, evProps, evAdd, evSave>>)
                     /\ promise' = [promise EXCEPT ![t] = "fulfilled"]
  /\ pc' = [pc EXCEPT ![t] = "done"]
  /\ UNCHANGED <<supportsDownload, call, write, body>>

(* --------------------------- specifications ---------------------------- *)
\* Canvas sizes of the concurrent specification: one without pixels, one with.
Sizes == {<<0, 0>>, <<2, 1>>}

\* Spec: up to MaxTasks invocations overlapping in every order.
Next ==
  \E t \in Tasks :
    \/ CallCopyImage(t)
    \/ CallDownloadImage(t)
    \/ CallDownloadPdf(t)
    \/ RasterReject(t)
    \/ \E sz \in Sizes : CopyImageResume(t, sz[1], sz[2])
    \/ \E sz \in Sizes : DownloadImageResume(t, sz[1], sz[2])
    \/ \E sz \in Sizes : DownloadPdfResume(t, sz[1], sz[2])
    \/ BlobCallback(t)
    \/ ClipboardWriteSettle(t)

Spec == Init /\ [][Next]_vars

\* SpecOne: one invocation, every canvas size in Dims x Dims.
NextOne ==
  \/ CallCopyImage(1)
  \/ CallDownloadImage(1)
  \/ CallDownloadPdf(1)
  \/ RasterReject(1)
  \/ \E w \in Dims, h \in Dims : CopyImageResume(1, w, h)
  \/ \E w \in Dims, h \in Dims : DownloadImageResume(1, w, h)
  \/ \E w \in Dims, h \in Dims : DownloadPdfResume(1, w, h)
  \/ BlobCallback(1)
  \/ ClipboardWriteSettle(1)

SpecOne == Init /\ [][NextOne]_vars


(* ------------------------- reading the traces -------------------------- *)
Events(t, name) == SelectSeq(trace[t], LAMBDA e : e.call = name)
Count(t, name) == Len(Events(t, name))

DomCalls == {"createElement", "appendChild", "removeChild"}
OutputCalls == {"clipboard.write", "click", "window.open", "pdf.save"}

DomMutations(t) == SelectSeq(trace[t], LAMBDA e : e.call \in DomCalls)
Outputs(t) == SelectSeq(trace[t], LAMBDA e : e.call \in OutputCalls)

Is(t, op) == call[t].op = op
Returned(t) == pc[t] = "done" /\ promise[t] = "fulfilled"
RasterFailed(t) == pc[t] = "done" /\ canvas[t] = NoCanvas

\* the name and extension an invocation was asked for, defaults applied
AskedName(t) ==
  IF call[t].fileName = Undefined THEN "image" ELSE call[t].fileName.val
AskedExtension(t) ==
  IF call[t].fileExtension = Undefined THEN "png"
  ELSE call[t].fileExtension.val

(* ------------------------------- C1 ------------------------------------ *)
\* C1: on a platform with the download attribute, no state between turns --
\* before an invocation, while invocations are suspended on rasterization,
\* after they return -- has a download link attached to the document, and a
\* returned downloadImage attached, clicked and removed one and the same
\* link, in that order, within its resumption.
C1_LinkNeverObservable ==
  /\ body = <<>>
  /\ \A t \in Tasks :
       (Is(t, "downloadImage") /\ Returned(t) /\ supportsDownload) =>
         LET s == trace[t]
         IN  /\ Len(s) = 6
             /\ s[3].call = "createElement"
             /\ s[4].call = "appendChild" /\ s[4].node = s[3].node
             /\ s[5].call = "click" /\ s[5].node = s[3].node
             /\ s[6].call = "removeChild" /\ s[6].node = s[3].node

\* a downloadImage has returned after its click while a later invocation is
\* still suspended on rasterization
C1_Witness ==
  /\ supportsDownload
  /\ Is(1, "downloadImage") /\ Returned(1) /\ Count(1, "click") = 1
  /\ pc[2] = "awaitRaster"
  /\ body = <<>>

(* ------------------------------- C2 ------------------------------------ *)
\* C2: a copyImage whose rasterization succeeded makes at most one clipboard
\* write, exactly one once its blob callback has run, the item written is
\* the single item typed image/png, and the invocation makes no DOM call and
\* leaves the document as it was.
C2_OneClipboardWrite ==
  \A t \in Tasks :
    (Is(t, "copyImage") /\ canvas[t] # NoCanvas) =>
      /\ Count(t, "clipboard.write") <= 1
      /\ pc[t] = "done" => Count(t, "clipboard.write") = 1
      /\ \A i \in 1..Count(t, "clipboard.write") :
           LET items == Events(t, "clipboard.write")[i].items
           IN  Len(items) = 1 /\ items[1].type = "image/png"
      /\ DomMutations(t) = <<>>
      /\ body = <<>>

C2_Witness ==
  /\ Is(1, "copyImage") /\ pc[1] = "done" /\ write[1] = "ok"
  /\ Count(1, "clipboard.write") = 1
  /\ Events(1, "clipboard.write")[1].items[1].blob.type = "image/png"

(* ------------------------------- C3 ------------------------------------ *)
\* C3: an invocation with a null element never returns normally: once it is
\* over its promise is rejected; and an invocation of any of the three
\* operations whose rasterization failed is rejected and has made no call
\* after html2canvas -- no clipboard write, click, window.open or pdf.save.
C3_NullElementFails ==
  \A t \in Tasks :
    /\ (pc[t] # "idle" /\ call[t].element = NullRef) =>
         /\ promise[t] \in {"pending", "rejected"}
         /\ pc[t] = "done" => promise[t] = "rejected"
    /\ (pc[t] # "idle" /\ RasterFailed(t)) =>
         /\ promise[t] = "rejected"
         /\ Outputs(t) = <<>>
         /\ Len(trace[t]) = 1

\* a copyImage and a downloadPdf, both with a null element, both rejected
C3_Witness ==
  /\ Is(1, "copyImage") /\ Is(2, "downloadPdf")
  /\ \A t \in {1, 2} :
       /\ call[t].element = NullRef
       /\ promise[t] = "rejected"
       /\ Outputs(t) = <<>>

(* ------------------------------- C4 ------------------------------------ *)
\* C4: on a platform with the download attribute a returned downloadImage
\* clicked a link whose download name is exactly <n>.<f>, n the file name
\* given or "image", f the extension given or "png"; with neither given the
\* name is "image.png".
C4_DownloadNamed ==
  \A t \in Tasks :
    (Is(t, "downloadImage") /\ Returned(t) /\ supportsDownload) =>
      /\ Count(t, "click") = 1
      /\ LET click == Events(t, "click")[1]
         IN  /\ click.download = Str(AskedName(t) \o "." \o AskedExtension(t))
             /\ (call[t].fileName = Undefined
                   /\ call[t].fileExtension = Undefined)
                  => click.download = Str("image.png")
             /\ (call[t].fileName = Str("a.b")
                   /\ call[t].fileExtension = Str("jpg"))
                  => click.download = Str("a.b.jpg")

C4_Witness ==
  /\ supportsDownload
  /\ Is(1, "downloadImage") /\ Returned(1)
  /\ call[1].fileName = Undefined /\ call[1].fileExtension = Undefined
  /\ Events(1, "click")[1].download = Str("image.png")

(* ------------------------------- C5 ------------------------------------ *)
\* The encoded data a returned downloadImage handed on: the href of the link
\* it clicked, or the URL it opened.
HandedData(t) ==
  IF Count(t, "click") = 1 THEN Events(t, "click")[1].href
  ELSE Events(t, "window.open")[1].url

\* C5: a returned downloadImage with format "jpg" on a canvas with pixels
\* names the download "image.jpg" when no file name is given, and the data
\* it hands on is tagged as JPEG, the format the caller selected.
C5_JpgDataIsJpeg ==
  \A t \in Tasks :
    (/\ Is(t, "downloadImage") /\ Returned(t)
     /\ call[t].fileExtension = Str("jpg")
     /\ ~IsEmpty(canvas[t])) =>
      /\ (supportsDownload /\ call[t].fileName = Undefined)
           => Events(t, "click")[1].download = Str("image.jpg")
      /\ HandedData(t).tag \in {"image/jpeg", "image/jpg"}

(* ------------------------------- C6 ------------------------------------ *)
\* C6: every image placement downloadPdf makes is passed the page width as
\* width and, as height, the JS value of (page width * image height) / image
\* width for the image's intrinsic width w and height h: the finite quotient
\* when w > 0 (0 when h = 0), Infinity when w = 0 < h, NaN when w = h = 0.
C6_HeightIsScaledWidth ==
  \A t \in Tasks :
    Is(t, "downloadPdf") =>
      \A i \in 1..Count(t, "addImage") :
        LET img == Events(t, "addImage")[i].image
            w == canvas[t].width
            h == canvas[t].height
        IN  /\ NumEq(img.w, Int2Num(PageWidth))
            /\ (w > 0) => /\ img.h.k = "fin"
                          /\ img.h.n * w = PageWidth * h * img.h.d
            /\ (w = 0 /\ h > 0) => img.h = Infinity
            /\ (w = 0 /\ h = 0) => img.h = NaN

\* a saved PDF of an image twice as wide as high: height is half the width
C6_Witness ==
  /\ Is(1, "downloadPdf") /\ Returned(1)
  /\ canvas[1].width = 2 /\ canvas[1].height = 1
  /\ NumEq(Events(1, "addImage")[1].image.h, Fin(PageWidth, 2))

(* ------------------------------- C7 ------------------------------------ *)
SavedDocs(t) == Events(t, "pdf.save")

\* C7 as stated: the saved document is <fileName>.pdf, one page of the
\* standard width, the image at the origin with the page's width, and the
\* page height is the scaled image height, so that the image fills the page
\* exactly.  (Canvases with pixels only.)
C7_ImageFillsPage ==
  \A t \in Tasks :
    (Is(t, "downloadPdf") /\ ~IsEmpty(canvas[t])) =>
      \A i \in 1..Len(SavedDocs(t)) :
        LET saved == SavedDocs(t)[i]
            doc == saved.doc
        IN  /\ saved.name = AskedName(t) \o ".pdf"
            /\ doc.pages = 1
            /\ doc.pageWidth = PageWidth
            /\ Len(doc.images) = 1
            /\ doc.images[1].x = 0 /\ doc.images[1].y = 0
            /\ NumEq(doc.images[1].w, Int2Num(doc.pageWidth))
            /\ NumEq(doc.images[1].h, Int2Num(doc.pageHeight))

\* C7 amended: the saved document is <fileName>.pdf (image.pdf by default),
\* one page of the default format -- standard width and standard height, the
\* page is never resized -- holding exactly one image, placed at the origin
\* with the page's width and the height scaled by the image's aspect ratio.
C7_ImageScaledToPageWidth ==
  \A t \in Tasks :
    Is(t, "downloadPdf") =>
      /\ Returned(t) => Len(SavedDocs(t)) = 1
      /\ \A i \in 1..Len(SavedDocs(t)) :
           LET saved == SavedDocs(t)[i]
               doc == saved.doc
               w == canvas[t].width
               h == canvas[t].height
           IN  /\ saved.name = AskedName(t) \o ".pdf"
               /\ call[t].fileName = Undefined => saved.name = "image.pdf"
               /\ doc.pages = 1
               /\ doc.pageWidth = PageWidth /\ doc.pageHeight = PageHeight
               /\ Len(doc.images) = 1
               /\ doc.images[1].x = 0 /\ doc.images[1].y = 0
               /\ doc.images[1].data.bitmap = (IF IsEmpty(canvas[t]) THEN 0 ELSE t)
               /\ NumEq(doc.images[1].w, Int2Num(PageWidth))
               /\ (w > 0) => /\ doc.images[1].h.k = "fin"
                             /\ doc.images[1].h.n * w
                                  = PageWidth * h * doc.images[1].h.d

\* a saved image.pdf whose square image is lower than the page
C7_Witness ==
  /\ Is(1, "downloadPdf") /\ Returned(1) /\ call[1].fileName = Undefined
  /\ canvas[1].width = 1 /\ canvas[1].height = 1
  /\ SavedDocs(1)[1].name = "image.pdf"
  /\ NumEq(SavedDocs(1)[1].doc.images[1].h, Int2Num(PageWidth))
  /\ SavedDocs(1)[1].doc.pageHeight > PageWidth

(* ------------------------------- C8 ------------------------------------ *)
\* C8: a returned downloadImage did exactly one of two things.  Without the
\* download attribute it opened the encoded image once and never attached or
\* clicked the link; with it, it opened nothing and clicked once.
C8_DownloadOrOpen ==
  \A t \in Tasks :
    (Is(t, "downloadImage") /\ Returned(t)) =>
      LET data == toDataURL(canvas[t], "image/" \o AskedExtension(t))
      IN  IF supportsDownload
          THEN /\ Count(t, "window.open") = 0
               /\ Count(t, "click") = 1 /\ Count(t, "appendChild") = 1
               /\ Events(t, "click")[1].href = data
          ELSE /\ Count(t, "window.open") = 1
               /\ Events(t, "window.open")[1].url = data
               /\ Count(t, "click") = 0
               /\ Count(t, "appendChild") = 0 /\ Count(t, "removeChild") = 0

C8_Witness ==
  /\ ~supportsDownload
  /\ Is(1, "downloadImage") /\ Returned(1) /\ ~IsEmpty(canvas[1])
  /\ Count(1, "window.open") = 1 /\ Count(1, "click") = 0

(* ------------------------------- C9 ------------------------------------ *)
\* C9: a copyImage whose rasterization succeeded reports fulfilment to its
\* caller, and that is what it reports whether its clipboard write has not
\* been issued, is pending, has succeeded or has failed; the write is issued
\* only after html2canvas and then toBlob.
C9_FireAndForget ==
  \A t \in Tasks :
    Is(t, "copyImage") =>
      /\ canvas[t] # NoCanvas => promise[t] = "fulfilled"
      /\ write[t] # "none" =>
           /\ canvas[t] # NoCanvas
           /\ Len(trace[t]) = 3
           /\ trace[t][1].call = "html2canvas"
           /\ trace[t][2].call = "toBlob"
           /\ trace[t][3].call = "clipboard.write"
      /\ write[t] = "none" => Count(t, "clipboard.write") = 0

\* the caller was told of fulfilment and the clipboard write has failed
C9_Witness ==
  /\ Is(1, "copyImage") /\ promise[1] = "fulfilled" /\ write[1] = "failed"
  /\ ~IsEmpty(canvas[1])

(* ------------------------------- C10 ----------------------------------- *)
OutputsAt ==
  UNION { { <<t, i>> : i \in { j \in 1..Len(trace[t]) :
                                trace[t][j].call \in OutputCalls } } :
          t \in Tasks }

\* The one output of a returned invocation is built from that invocation's
\* own arguments and its own canvas.
OwnOutput(t) ==
  /\ Len(Outputs(t)) = 1
  /\ LET out == Outputs(t)[1]
         own == IF IsEmpty(canvas[t]) THEN 0 ELSE t
     IN  CASE out.call = "click" ->
                /\ out.download = Str(AskedName(t) \o "." \o AskedExtension(t))
                /\ out.href.bitmap = own /\ out.node = t
           [] out.call = "window.open" -> out.url.bitmap = own
           [] out.call = "pdf.save" ->
                /\ out.name = AskedName(t) \o ".pdf"
                /\ out.doc.images[1].data.bitmap = own
           [] out.call = "clipboard.write" -> out.items[1].blob.bitmap = own

\* C10: under every interleaving, the invocations that have returned
\* produced exactly one output each and no other invocation produced any,
\* each output comes from its own invocation's arguments and canvas, and
\* once every invocation is over the document holds no link.
C10_Independent ==
  /\ \A t \in Tasks :
       /\ Returned(t) => OwnOutput(t)
       /\ ~Returned(t) => Outputs(t) = <<>>
       /\ canvas[t] # NoCanvas => canvas[t].id = t
  /\ Cardinality(OutputsAt) = Cardinality({t \in Tasks : Returned(t)})
  /\ (\A t \in Tasks : pc[t] = "done") => body = <<>>

\* two overlapping downloadImage calls with different names, both returned
C10_Witness ==
  /\ supportsDownload
  /\ Is(1, "downloadImage") /\ Is(2, "downloadImage")
  /\ Returned(1) /\ Returned(2)
  /\ Outputs(1)[1].download = Str("QRCode.png")
  /\ Outputs(2)[1].download = Str("a.b.jpg")
  /\ Cardinality(OutputsAt) = 2

=============================================================================
